---- MODULE Spec2Model ----
(***************************************************************************)
(* Model of export-docs.py: the frontmatter codec, the content rewriter,   *)
(* the file orderer, the TOC builder and the document assembler.           *)
(*                                                                         *)
(* Text is a sequence of atoms.  An atom is one character ("\n", " ",      *)
(* "-", "1", ".") or a run of characters that every pattern of the program *)
(* either matches whole or not at all ("---", "<b>", "HTML_TAG_").         *)
(***************************************************************************)
EXTENDS Integers, Sequences, FiniteSets, TLC

VARIABLES
  n,          \* len(files) of the running process_files call
  index,      \* number of files process_files has consumed
  numbering,  \* process_files: the TOC counter
  toc,        \* process_files: the TOC entries emitted so far
  pages,      \* process_files: html_all_pages_content, block by block
  pc,         \* process_files: "loop", "done" or "raised"
  cur,        \* process_files: the file the last iteration read
  input,      \* argument of the function under study
  output,     \* its result
  called      \* the function that produced output, "none" before the call

vars == <<n, index, numbering, toc, pages, pc, cur, input, output, called>>

(***************************************************************************)
(* Bounds                                                                  *)
(***************************************************************************)
MaxFiles == 5
MaxLines == 4
MaxTags == 11
MaxCodeLines == 3
MaxDirFiles == 3
MaxPieces == 3

(***************************************************************************)
(* str helpers                                                             *)
(***************************************************************************)
NL == "\n"

RECURSIVE Split(_, _)
\* str.split(sep): always at least one piece
Split(t, sep) ==
  IF \A i \in 1..Len(t) : t[i] # sep THEN <<t>>
  ELSE LET k == CHOOSE i \in 1..Len(t) : t[i] = sep /\ \A j \in 1..(i-1) : t[j] # sep
       IN <<SubSeq(t, 1, k-1)>> \o Split(SubSeq(t, k+1, Len(t)), sep)

RECURSIVE Join(_, _)
\* sep.join(pieces)
Join(pieces, sep) ==
  IF pieces = <<>> THEN <<>>
  ELSE IF Len(pieces) = 1 THEN pieces[1]
  ELSE pieces[1] \o <<sep>> \o Join(Tail(pieces), sep)

IsSpace(a) == a \in {" ", NL}

RECURSIVE Strip(_)
\* str.strip()
Strip(t) ==
  IF t = <<>> THEN t
  ELSE IF IsSpace(t[1]) THEN Strip(Tail(t))
  ELSE IF IsSpace(t[Len(t)]) THEN Strip(SubSeq(t, 1, Len(t)-1))
  ELSE t

\* list.index(x, start) with 1-based positions; 0 stands for ValueError
ListIndex(l, x, start) ==
  IF \E i \in start..Len(l) : l[i] = x
  THEN CHOOSE i \in start..Len(l) : l[i] = x /\ \A j \in start..(i-1) : l[j] # x
  ELSE 0

(***************************************************************************)
(* parse_frontmatter                                                       *)
(***************************************************************************)
DELIM == "---"

\* frontmatter = None is has = FALSE; raised = TRUE is the ValueError of
\* lines.index('---', 1)
parse_frontmatter(md_content) ==
  LET lines == Split(md_content, NL) IN
  IF Strip(lines[1]) = <<DELIM>>
  THEN LET end_of_frontmatter == ListIndex(lines, <<DELIM>>, 2) IN
       IF end_of_frontmatter = 0
       THEN [raised |-> TRUE, has |-> FALSE, frontmatter |-> <<>>, content |-> <<>>]
       ELSE [raised |-> FALSE, has |-> TRUE,
             frontmatter |-> Join(SubSeq(lines, 2, end_of_frontmatter - 1), NL),
             content |-> Join(SubSeq(lines, end_of_frontmatter + 1, Len(lines)), NL)]
  ELSE [raised |-> FALSE, has |-> FALSE, frontmatter |-> <<>>, content |-> md_content]

(***************************************************************************)
(* html.escape and the two tag patterns                                    *)
(***************************************************************************)
\* atoms matched by r'<(/?\w+)>' (preprocess_mdx_content)
SimpleTags == {"<b>", "</b>"}

\* atoms matched by r'<[^>]+>' (preprocess_frontmatter)
TagAtoms == SimpleTags \cup {"<a b>"}

\* html.escape of one atom: & < > " ' become entities
EscapeAtom(a) ==
  CASE a = "<b>" -> "&lt;b&gt;"
    [] a = "</b>" -> "&lt;/b&gt;"
    [] a = "<a b>" -> "&lt;a b&gt;"
    [] a = "\"" -> "&quot;"
    [] a = "&lt;b&gt;" -> "&amp;lt;b&amp;gt;"
    [] a = "&lt;/b&gt;" -> "&amp;lt;/b&amp;gt;"
    [] OTHER -> a

html_escape(t) == [i \in 1..Len(t) |-> EscapeAtom(t[i])]

preprocess_mdx_content(md_content) ==
  [i \in 1..Len(md_content) |->
     IF md_content[i] \in SimpleTags THEN EscapeAtom(md_content[i]) ELSE md_content[i]]

(***************************************************************************)
(* str(int) and str.replace                                                *)
(***************************************************************************)
Digit == <<"0", "1", "2", "3", "4", "5", "6", "7", "8", "9">>

DigitAtoms == {Digit[i] : i \in 1..10}

RECURSIVE Str(_)
Str(k) == IF k < 10 THEN <<Digit[k + 1]>> ELSE Str(k \div 10) \o <<Digit[(k % 10) + 1]>>

RECURSIVE Replace(_, _, _)
\* s.replace(old, new): leftmost occurrences, not overlapping; old is not empty
Replace(s, old, new) ==
  IF Len(s) < Len(old) THEN s
  ELSE IF SubSeq(s, 1, Len(old)) = old
       THEN new \o Replace(SubSeq(s, Len(old) + 1, Len(s)), old, new)
       ELSE <<s[1]>> \o Replace(Tail(s), old, new)

(***************************************************************************)
(* preprocess_frontmatter, safe_load_frontmatter, restore_html_tags        *)
(***************************************************************************)
PLACEHOLDER == "HTML_TAG_"

RECURSIVE replace_tags(_, _)
\* re.sub(r'<[^>]+>', replace_tag, frontmatter) with html_tags threaded through;
\* html_tags keeps the insertion order of the dict
replace_tags(frontmatter, html_tags) ==
  IF frontmatter = <<>> THEN [modified |-> <<>>, html_tags |-> html_tags]
  ELSE IF frontmatter[1] \in TagAtoms
       THEN LET placeholder == <<PLACEHOLDER>> \o Str(Len(html_tags))
                rest == replace_tags(Tail(frontmatter),
                          Append(html_tags, [placeholder |-> placeholder, tag |-> frontmatter[1]]))
            IN [modified |-> placeholder \o rest.modified, html_tags |-> rest.html_tags]
       ELSE LET rest == replace_tags(Tail(frontmatter), html_tags)
            IN [modified |-> <<frontmatter[1]>> \o rest.modified, html_tags |-> rest.html_tags]

preprocess_frontmatter(frontmatter) == replace_tags(frontmatter, <<>>)

\* The subset of YAML the model reads: a block mapping, one "key: value" a line.
\* A value is a plain scalar, or a double-quoted one; digits alone are an int and
\* an empty value is null (neither is a str).  A second ": " in a value, a line
\* without ": " after its key, or an unbalanced quote is a yaml.YAMLError.  Every
\* document of the subset is a mapping or empty; a document that is a scalar or
\* a list (on which data.get fails) is outside it.
KEYSEP == ": "
QUOTE == "\""

YamlLineOk(line) ==
  /\ Len(line) >= 2
  /\ line[1] \notin {KEYSEP, QUOTE, " "}
  /\ line[2] = KEYSEP
  /\ LET v == Strip(SubSeq(line, 3, Len(line))) IN
     /\ \A i \in 1..Len(v) : v[i] # KEYSEP
     /\ IF v # <<>> /\ v[1] = QUOTE
        THEN /\ Len(v) >= 2
             /\ v[Len(v)] = QUOTE
             /\ \A i \in 2..(Len(v) - 1) : v[i] # QUOTE
        ELSE TRUE

YamlValue(line) ==
  LET v == Strip(SubSeq(line, 3, Len(line))) IN
  IF v # <<>> /\ v[1] = QUOTE THEN [str |-> TRUE, v |-> SubSeq(v, 2, Len(v) - 1)]
  ELSE IF v = <<>> \/ \A i \in 1..Len(v) : v[i] \in DigitAtoms THEN [str |-> FALSE, v |-> v]
  ELSE [str |-> TRUE, v |-> v]

\* ok = FALSE is the None of safe_load_frontmatter: a YAMLError, or an empty document
safe_load_frontmatter(frontmatter_content) ==
  LET all == Split(frontmatter_content, NL)
      lines == SelectSeq(all, LAMBDA l : Strip(l) # <<>>)
      keys == {lines[i][1] : i \in 1..Len(lines)}
  IN IF lines = <<>> \/ \E i \in 1..Len(lines) : ~YamlLineOk(lines[i])
     THEN [ok |-> FALSE, data |-> <<>>]
     ELSE [ok |-> TRUE,
           data |-> [k \in keys |->
              LET last == CHOOSE i \in 1..Len(lines) :
                            /\ lines[i][1] = k
                            /\ \A j \in (i+1)..Len(lines) : lines[j][1] # k
              IN YamlValue(lines[last])]]

RECURSIVE restore_value(_, _)
\* for placeholder, tag in html_tags.items(): value = value.replace(placeholder, tag)
restore_value(value, html_tags) ==
  IF html_tags = <<>> THEN value
  ELSE restore_value(Replace(value, html_tags[1].placeholder, <<html_tags[1].tag>>),
                     Tail(html_tags))

restore_html_tags(parsed_data, html_tags) ==
  [k \in DOMAIN parsed_data |->
     IF parsed_data[k].str
     THEN [str |-> TRUE, v |-> html_escape(restore_value(parsed_data[k].v, html_tags))]
     ELSE parsed_data[k]]

\* process_files, lines 184-187: the frontmatter text to the data the page uses
load_frontmatter(frontmatter) ==
  LET pre == preprocess_frontmatter(frontmatter)
      data == safe_load_frontmatter(pre.modified)
  IN IF data.ok
     THEN [ok |-> TRUE, data |-> restore_html_tags(data.data, pre.html_tags)]
     ELSE data

(***************************************************************************)
(* process_image_paths and preprocess_code_blocks                          *)
(***************************************************************************)
\* the attributes matched by r'src(?:Light|Dark)="(.*?)"'; the relative path of
\* both is /x.png
SrcThemed == {"srcLight=\"/x.png\"", "srcDark=\"/x.png\""}

\* f'src="{base_path}{relative_path}{path_args}"'
SRC_ABSOLUTE == "src=\"https://nextjs.org/_next/image?url=/x.png&w=1920&q=75\""

process_image_paths(md_content) ==
  [i \in 1..Len(md_content) |->
     IF md_content[i] \in SrcThemed THEN SRC_ABSOLUTE ELSE md_content[i]]

\* the atom of a fence, three backticks (a TLA+ string cannot hold a backtick)
FENCE == "[fence]"
FILENAME_ATTR == "filename=\"a.js\""
FILENAME == "a.js"
SWITCHER == "switcher"

\* atoms made of \w characters only
WordAtoms == {"js", "x", SWITCHER}

\* the length of the longest run of atoms of S that starts at position i of t
RECURSIVE RunLen(_, _, _)
RunLen(t, i, S) == IF i <= Len(t) /\ t[i] \in S THEN 1 + RunLen(t, i + 1, S) ELSE 0

\* the first position >= i of t that holds atom a, 0 when there is none
RECURSIVE Find(_, _, _)
Find(t, i, a) == IF i > Len(t) THEN 0 ELSE IF t[i] = a THEN i ELSE Find(t, i + 1, a)

\* One attempt of the pattern of line 32, fence (\w+)? \s+ filename=".." \s* (switcher)? \n (.*?) fence,
\* at position i.  (\w+)? and \s+ are followed by an atom outside their class, so
\* they take their whole run.  \s* gives back atoms until (switcher)?\n matches:
\* with the whole run taken only "switcher\n" can follow; otherwise the \n of the
\* pattern is the last newline of the run.  (.*?) ends at the first fence.
match_block(t, i) ==
  LET w == RunLen(t, i + 1, WordAtoms)
      s1 == RunLen(t, i + 1 + w, {" ", NL})
      f == i + 1 + w + s1
      s2 == RunLen(t, f + 1, {" ", NL})
      p == f + 1 + s2
      withSwitcher == p + 1 <= Len(t) /\ t[p] = SWITCHER /\ t[p + 1] = NL
      newlines == {k \in (f + 1)..(p - 1) : t[k] = NL}
      lastNl == CHOOSE k \in newlines : \A j \in newlines : j <= k
      start == IF withSwitcher THEN p + 2 ELSE lastNl + 1
      close == Find(t, start, FENCE)
  IN IF /\ i <= Len(t) /\ t[i] = FENCE
        /\ s1 >= 1
        /\ f <= Len(t) /\ t[f] = FILENAME_ATTR
        /\ (withSwitcher \/ newlines # {})
        /\ close # 0
     THEN [found |-> TRUE,
           language |-> SubSeq(t, i + 1, i + w),
           code_block |-> SubSeq(t, start, close - 1),
           end |-> close]
     ELSE [found |-> FALSE, language |-> <<>>, code_block |-> <<>>, end |-> 0]

HEADER_OPEN == "<div class=\"code-header\"><i>"
HEADER_CLOSE == "</i></div>"

\* the replace() callback: header, newline, fence, language, newline, code_block, newline, fence
replace_block(m) ==
  LET header == IF m.language # <<>>
                THEN <<HEADER_OPEN, FILENAME, " (">> \o m.language \o <<")", HEADER_CLOSE>>
                ELSE <<HEADER_OPEN, FILENAME, HEADER_CLOSE>>
  IN header \o <<NL, FENCE>> \o m.language \o <<NL>> \o m.code_block \o <<NL, FENCE>>

RECURSIVE sub_blocks(_, _)
\* re.sub from position i on: leftmost matches, not overlapping
sub_blocks(t, i) ==
  IF i > Len(t) THEN <<>>
  ELSE LET m == match_block(t, i) IN
       IF m.found THEN replace_block(m) \o sub_blocks(t, m.end + 1)
       ELSE <<t[i]>> \o sub_blocks(t, i + 1)

preprocess_code_blocks(md_content) == sub_blocks(md_content, 1)

(***************************************************************************)
(* String order, get_files_sorted                                          *)
(***************************************************************************)
\* ord(c) of the characters file names and versions are made of
Ord(c) ==
  CASE c = " " -> 32 [] c = "!" -> 33 [] c = "." -> 46 [] c = "/" -> 47
    [] c = "0" -> 48 [] c = "1" -> 49 [] c = "2" -> 50 [] c = "3" -> 51
    [] c = "4" -> 52 [] c = "5" -> 53 [] c = "6" -> 54 [] c = "7" -> 55
    [] c = "8" -> 56 [] c = "9" -> 57 [] c = "A" -> 65 [] c = "_" -> 95
    [] c = "a" -> 97 [] c = "d" -> 100 [] c = "e" -> 101 [] c = "g" -> 103
    [] c = "i" -> 105 [] c = "m" -> 109 [] c = "n" -> 110 [] c = "p" -> 112
    [] c = "r" -> 114 [] c = "s" -> 115 [] c = "x" -> 120

RECURSIVE SeqLess(_, _)
\* a < b for two sequences of integers, as Python compares tuples and lists
SeqLess(a, b) ==
  IF b = <<>> THEN FALSE
  ELSE IF a = <<>> THEN TRUE
  ELSE IF a[1] # b[1] THEN a[1] < b[1]
  ELSE SeqLess(Tail(a), Tail(b))

\* a < b for two str
StrLess(a, b) == SeqLess([i \in 1..Len(a) |-> Ord(a[i])], [i \in 1..Len(b) |-> Ord(b[i])])

INDEX_MD == <<"i", "n", "d", "e", "x", ".", "m", "d">>
INDEX_MDX == INDEX_MD \o <<"x">>
PAGE_MDX == <<"p", "a", "g", "e", ".", "m", "d", "x">>

\* os.path.join(root, file)
path_join(root, file) == root \o <<"/">> \o file

MARKER == <<"!", "!", "!">>

\* modified_basename without the marker
modified_basename_plain(file) == file

\* '!!!' + file if file in ['index.mdx', 'index.md'] else file
modified_basename(file) == IF file \in {INDEX_MDX, INDEX_MD} THEN MARKER \o file ELSE file

\* the (full_path, sort_key) pairs os.walk gives for a root directory and one
\* directory below it
all_files(tree) ==
  {[full_path |-> path_join(tree.root, f),
    sort_key |-> path_join(tree.root, modified_basename(f))] : f \in tree.files}
  \cup
  {[full_path |-> path_join(tree.sub, f),
    sort_key |-> path_join(tree.sub, modified_basename(f))] : f \in tree.subfiles}

RECURSIVE sorted_by_key(_)
\* the orders all_files.sort(key=lambda x: x[1]) can leave: the sort is stable
\* and os.walk lists a directory in no particular order, so entries of equal
\* key come out either way round
sorted_by_key(entries) ==
  IF entries = {} THEN {<<>>}
  ELSE UNION {{<<e>> \o rest : rest \in sorted_by_key(entries \ {e})} :
                e \in {m \in entries : \A o \in entries : ~StrLess(o.sort_key, m.sort_key)}}

\* the lists get_files_sorted can return
get_files_sorted(tree) ==
  {[i \in 1..Len(order) |-> order[i].full_path] : order \in sorted_by_key(all_files(tree))}

(***************************************************************************)
(* find_latest_version and the title of the artifact                       *)
(***************************************************************************)
\* one attempt of r"v(\d+\.\d+\.\d+)" at position i; each \d+ takes its whole run
match_version(t, i) ==
  LET a == RunLen(t, i + 1, DigitAtoms)
      b == RunLen(t, i + a + 2, DigitAtoms)
      c == RunLen(t, i + a + b + 3, DigitAtoms)
  IN IF /\ i <= Len(t) /\ t[i] = "v"
        /\ a >= 1 /\ i + a + 1 <= Len(t) /\ t[i + a + 1] = "."
        /\ b >= 1 /\ i + a + b + 2 <= Len(t) /\ t[i + a + b + 2] = "."
        /\ c >= 1
     THEN [found |-> TRUE, group |-> SubSeq(t, i + 1, i + a + b + c + 2),
           end |-> i + a + b + c + 2]
     ELSE [found |-> FALSE, group |-> <<>>, end |-> 0]

RECURSIVE findall_versions(_, _)
\* version_pattern.findall(html_content) from position i on
findall_versions(t, i) ==
  IF i > Len(t) THEN <<>>
  ELSE IF match_version(t, i).found
       THEN <<match_version(t, i).group>> \o findall_versions(t, match_version(t, i).end + 1)
       ELSE findall_versions(t, i + 1)

RECURSIVE IntOf(_)
\* int(digits)
IntOf(digits) ==
  IF digits = <<>> THEN 0
  ELSE 10 * IntOf(SubSeq(digits, 1, Len(digits) - 1)) + (Ord(digits[Len(digits)]) - Ord("0"))

\* the release of packaging's Version: the components as integers
Release(v) == [i \in 1..Len(Split(v, ".")) |-> IntOf(Split(v, ".")[i])]

\* a sort key that compares the text of the version
version_text(v) == [i \in 1..Len(v) |-> Ord(v[i])]

\* key=lambda v: version.parse(v)
version_key(v) == Release(v)

\* sorted(set(versions), key=..., reverse=True)[0]: the versions that can come
\* first (versions of equal key keep the order of the set, which is arbitrary);
\* the empty set when there is none
find_latest_version(html_content) ==
  LET versions == {findall_versions(html_content, 1)[i] :
                     i \in 1..Len(findall_versions(html_content, 1))}
  IN {v \in versions : \A u \in versions : ~SeqLess(version_key(v), version_key(u))}

TITLE == "Next.js Documentation"
PDF_NAME == "Next.js_Documentation.pdf"
TODAY == "%Y-%m-%d"

\* lines 319-325
titled(latest_version) ==
  IF latest_version # <<>>
  THEN [latest_version |-> latest_version,
        project_title |-> <<TITLE, " ", "v">> \o latest_version,
        output_pdf |-> <<"Next.js_Docs_v">> \o latest_version \o <<"_", TODAY, ".pdf">>]
  ELSE [latest_version |-> <<>>, project_title |-> <<TITLE>>, output_pdf |-> <<PDF_NAME>>]

(***************************************************************************)
(* process_files                                                           *)
(***************************************************************************)
\* s.startswith(prefix)
StartsWith(t, prefix) == Len(t) >= Len(prefix) /\ SubSeq(t, 1, Len(prefix)) = prefix

\* rel_path.count(os.sep), less one for an index file below the root
file_depth(file) ==
  IF StartsWith(file.basename, <<"i", "n", "d", "e", "x", ".">>) /\ file.seps > 0
  THEN file.seps - 1 ELSE file.seps

Upper(c) == CASE c = "i" -> "I" [] c = "p" -> "P" [] c = "a" -> "A" [] OTHER -> c

\* os.path.splitext(os.path.basename(file_path))[0].title(): the stem ends at the
\* last dot, and title() capitalises its first letter
default_title(file) ==
  LET dots == {i \in 1..Len(file.basename) : file.basename[i] = "."}
      last == CHOOSE i \in dots : \A j \in dots : j <= i
      stem == IF dots = {} THEN file.basename ELSE SubSeq(file.basename, 1, last - 1)
  IN IF stem = <<>> THEN stem ELSE <<Upper(stem[1])>> \o Tail(stem)

\* while len(numbering) <= depth: numbering.append(0)
RECURSIVE grow(_, _)
grow(counter, depth) == IF Len(counter) <= depth THEN grow(Append(counter, 0), depth) ELSE counter

\* visit without the reset loop of lines 200-201
visit_no_reset(counter, depth) ==
  LET g == grow(counter, depth) IN
  [i \in 1..Len(g) |-> IF i = depth + 1 THEN g[i] + 1 ELSE g[i]]

\* numbering[depth] += 1, then numbering[i] = 0 for i in range(depth + 1, len(numbering))
visit(counter, depth) ==
  LET g == grow(counter, depth) IN
  [i \in 1..Len(g) |-> IF i = depth + 1 THEN g[i] + 1 ELSE IF i > depth + 1 THEN 0 ELSE g[i]]

\* toc_numbering with the slice numbering[:depth]
toc_numbering_short(counter, depth) ==
  Join([i \in 1..depth |-> Str(counter[i])], ".")

\* '.'.join(map(str, numbering[:depth + 1]))
toc_numbering(counter, depth) ==
  Join([i \in 1..(depth + 1) |-> Str(counter[i])], ".")

\* f"{value}" of a parsed field
Format(value) == IF ~value.str /\ value.v = <<>> THEN <<"None">> ELSE value.v

\* data.get(key, default)
Get(data, key, default) == IF key \in DOMAIN data THEN Format(data[key]) ELSE default

\* f"{toc_numbering} - {toc_title}"
toc_full_title(number, title) == number \o <<" ", "-", " ">> \o title

PAGE_BREAK == [kind |-> "break", parsed |-> FALSE, title |-> <<>>, description |-> <<>>, body |-> <<>>]

\* page_break with the test index < len(files)
page_break_each(i, len) == IF i < len THEN <<PAGE_BREAK>> ELSE <<>>

\* if index < len(files) - 1: the page-break div
page_break(i, len) == IF i < len - 1 THEN <<PAGE_BREAK>> ELSE <<>>

UNPARSED == [ok |-> FALSE, data |-> <<>>]

\* lines 188-225: the TOC entry and the heading of a file whose frontmatter parsed
toc_entry(file, counter, data, body, depth, number, title) ==
  [raised |-> FALSE,
   numbering |-> counter,
   toc |-> <<[depth |-> depth, numbering |-> number, title |-> title]>>,
   page |-> [kind |-> "doc", parsed |-> TRUE,
             title |-> toc_full_title(number, title),
             description |-> Get(data, "description", <<"No description">>),
             body |-> body]]

\* page_content with "data = safe_load_frontmatter(frontmatter) or {}": a file whose
\* frontmatter did not parse is given an entry with the default title
page_content_or_empty(file, counter, loaded, body, depth, visited) ==
  toc_entry(file, visited, IF loaded.ok THEN loaded.data ELSE <<>>, body, depth,
            toc_numbering(visited, depth),
            Get(IF loaded.ok THEN loaded.data ELSE <<>>, "title", default_title(file)))

\* lines 186-229: data is None, or there is no frontmatter: html_page_content = ""
page_content(file, counter, loaded, body, depth, visited) ==
  IF loaded.ok
  THEN toc_entry(file, visited, loaded.data, body, depth,
                 toc_numbering(visited, depth),
                 Get(loaded.data, "title", default_title(file)))
  ELSE [raised |-> FALSE, numbering |-> counter, toc |-> <<>>,
        page |-> [kind |-> "doc", parsed |-> FALSE, title |-> <<>>,
                  description |-> <<>>, body |-> body]]

\* lines 181-185: a ValueError of parse_frontmatter leaves process_files; an empty
\* frontmatter is falsy, like None
split_content(file, counter, split) ==
  IF split.raised
  THEN [raised |-> TRUE, numbering |-> counter, toc |-> <<>>, page |-> PAGE_BREAK]
  ELSE page_content(file, counter,
                    IF split.has /\ split.frontmatter # <<>>
                    THEN load_frontmatter(split.frontmatter) ELSE UNPARSED,
                    split.content, file_depth(file), visit(counter, file_depth(file)))

\* One iteration of the loop of process_files on the file, with the counter at
\* `counter` (Change_img_url is True, line 302).  The doc-path line and the
\* related block of the heading are not modelled; the body is what
\* markdown.markdown is given.
process_file(file, counter) ==
  split_content(file, counter,
    parse_frontmatter(preprocess_code_blocks(process_image_paths(file.text))))

\* the documents a file of the list may hold
OK_TITLE ==
  <<DELIM, NL, "title", KEYSEP, "a", NL, "description", KEYSEP, QUOTE, "<b>", QUOTE, NL,
    DELIM, NL, "x">>
OK_NO_TITLE ==
  <<DELIM, NL, "description", KEYSEP, "x", NL, DELIM, NL, "srcLight=\"/x.png\"">>
NO_FRONTMATTER ==
  <<"<b>", NL, FENCE, "js", " ", FILENAME_ATTR, NL, "x", NL, FENCE>>
EMPTY_FRONTMATTER == <<DELIM, NL, DELIM, NL, "x">>
YAML_ERROR == <<DELIM, NL, "title", KEYSEP, "a", KEYSEP, "b", NL, DELIM, NL, "x">>
UNTERMINATED == <<DELIM, NL, "title", KEYSEP, "a", NL, "x">>

Files ==
  { [seps |-> 0, basename |-> INDEX_MDX, text |-> OK_TITLE],
    [seps |-> 1, basename |-> INDEX_MDX, text |-> OK_NO_TITLE],
    [seps |-> 1, basename |-> PAGE_MDX, text |-> OK_TITLE],
    [seps |-> 2, basename |-> PAGE_MDX, text |-> OK_NO_TITLE],
    [seps |-> 0, basename |-> PAGE_MDX, text |-> NO_FRONTMATTER],
    [seps |-> 2, basename |-> INDEX_MDX, text |-> EMPTY_FRONTMATTER],
    [seps |-> 1, basename |-> PAGE_MDX, text |-> YAML_ERROR],
    [seps |-> 1, basename |-> PAGE_MDX, text |-> UNTERMINATED] }

NoFile == [seps |-> 0, basename |-> <<>>, text |-> <<>>]

Init ==
  /\ n \in 0..MaxFiles
  /\ index = 0
  /\ numbering = <<0>>
  /\ toc = <<>>
  /\ pages = <<>>
  /\ pc = "loop"
  /\ cur = NoFile
  /\ input = <<>>
  /\ output = <<>>
  /\ called = "none"

\* the body of the for loop, lines 173-235, on the next file of the list
ProcessFile(file) ==
  /\ pc = "loop"
  /\ index < n
  /\ cur' = file
  /\ LET r == process_file(file, numbering) IN
     IF r.raised
     THEN /\ pc' = "raised"
          /\ UNCHANGED <<index, numbering, toc, pages>>
     ELSE /\ numbering' = r.numbering
          /\ toc' = toc \o r.toc
          /\ pages' = pages \o <<r.page>> \o page_break(index, n)
          /\ index' = index + 1
          /\ pc' = "loop"
  /\ UNCHANGED <<n, input, output, called>>

HTML_HEADER == "<html><head><style>...</style></head><body>"
HTML_FOOTER == "</body></html>"
TOC_OPEN == "<h1>Table of Contents</h1>"
TOC_CLOSE == "<div style=\"page-break-before: always;\">"

\* lines 237-244: the three documents process_files returns
Return ==
  /\ pc = "loop"
  /\ index = n
  /\ pc' = "done"
  /\ called' = "process_files"
  /\ output' = [html_all_content |-> <<HTML_HEADER, TOC_OPEN>> \o toc \o <<TOC_CLOSE>>
                                      \o pages \o <<HTML_FOOTER>>,
                toc_html |-> <<HTML_HEADER, TOC_OPEN>> \o toc \o <<TOC_CLOSE, HTML_FOOTER>>,
                html_all_pages_content |-> <<HTML_HEADER>> \o pages \o <<HTML_FOOTER>>]
  /\ UNCHANGED <<n, index, numbering, toc, pages, cur, input>>

Next == (\E file \in Files : ProcessFile(file)) \/ Return

Spec == Init /\ [][Next]_vars

(***************************************************************************)
(* Properties of process_files (Spec)                                      *)
(***************************************************************************)
Depths == [i \in 1..Len(toc) |-> toc[i].depth]
Numbers == [i \in 1..Len(toc) |-> toc[i].numbering]
Anchor(entry) == toc_full_title(entry.numbering, entry.title)

\* a step of ProcessFile that emitted a TOC entry: cur' is the file it visited
Visits == Len(toc') = Len(toc) + 1

Components(number) == Cardinality({i \in 1..Len(number) : number[i] = "."}) + 1

SlotBefore(i) == IF i <= Len(numbering) THEN numbering[i] ELSE 0

C1_Visit ==
  Visits =>
    LET d == file_depth(cur')
        number == toc'[Len(toc')].numbering
    IN /\ Len(numbering') > d
       /\ numbering'[d + 1] = SlotBefore(d + 1) + 1
       /\ \A i \in (d + 2)..Len(numbering') : numbering'[i] = 0
       /\ number = Join([i \in 1..(d + 1) |-> Str(numbering'[i])], ".")
       /\ Components(number) = d + 1

C1_Example ==
  Depths = <<0, 1, 1, 0, 1>> =>
    Numbers = << <<"1">>, <<"1", ".", "1">>, <<"1", ".", "2">>, <<"2">>, <<"2", ".", "1">> >>

\* C1: visiting a document at depth d adds exactly 1 to slot d and leaves every
\* slot beyond d at 0; the numbering rendered is slots 0..d joined by '.', d+1
\* components; the depths 0,1,1,0,1 render 1, 1.1, 1.2, 2, 2.1.
C1_TocCounter == [][C1_Visit]_vars /\ []C1_Example

C1_Witness == Depths = <<0, 1, 1, 0, 1>>

\* the text has a frontmatter block and the parser gives no data for it
Unparsable(text) ==
  LET split == parse_frontmatter(text) IN
  /\ ~split.raised
  /\ split.has
  /\ ~safe_load_frontmatter(split.frontmatter).ok

\* C4: a document whose frontmatter cannot be parsed does not end the run: it
\* gets no TOC entry and no heading, its body is still appended, and the loop
\* goes on to the next document.
C4_UnparsableSkipped ==
  [][(pc' # "done" /\ Unparsable(cur'.text)) =>
       /\ pc' = "loop"
       /\ index' = index + 1
       /\ toc' = toc
       /\ numbering' = numbering
       /\ Len(pages') > Len(pages)
       /\ pages'[Len(pages) + 1] =
            [kind |-> "doc", parsed |-> FALSE, title |-> <<>>, description |-> <<>>,
             body |-> parse_frontmatter(cur'.text).content]]_vars

C4_Witness ==
  /\ cur.text = YAML_ERROR
  /\ index = 2
  /\ Len(toc) = 1
  /\ pages[3].body = <<"x">>

\* C6: the document-wide escaping pass runs on the raw text before the split, so
\* no text that reaches the Markdown renderer holds an unescaped simple tag.
C6_EscapedBeforeSplit ==
  \A i \in 1..Len(pages) :
    pages[i].kind = "doc" =>
      \A k \in 1..Len(pages[i].body) : pages[i].body[k] \notin SimpleTags

\* C7: a page-break marker follows the block of every document but the last, so
\* the content holds max(n-1, 0) markers, each between two documents, parsed
\* frontmatter or not.
C7_PageBreaks ==
  /\ \A i \in 1..Len(pages) : (pages[i].kind = "break") <=> (i % 2 = 0)
  /\ Len(pages) = IF index = 0 THEN 0 ELSE IF index < n THEN 2 * index ELSE 2 * n - 1
  /\ pc = "done" =>
       Cardinality({i \in 1..Len(pages) : pages[i].kind = "break"})
         = IF n = 0 THEN 0 ELSE n - 1

C7_Witness ==
  /\ pc = "done"
  /\ n = 3
  /\ pages[1].parsed /\ ~pages[3].parsed /\ ~pages[5].parsed
  /\ pages[2].kind = "break" /\ pages[4].kind = "break"

C10_Distinct ==
  \A i, j \in 1..Len(toc) :
    i # j => toc[i].numbering # toc[j].numbering /\ Anchor(toc[i]) # Anchor(toc[j])

\* the counter before the step, with zeros up to the length it has after it
CounterBefore == [i \in 1..Len(numbering') |-> SlotBefore(i)]

\* C10: the numberings emitted in one run are pairwise distinct, and so are the
\* anchors "<numbering> - <title>", whatever the titles; at every visit the
\* counter grows in lexicographic order.
C10_AnchorsDistinct ==
  []C10_Distinct /\ [][Visits => SeqLess(CounterBefore, numbering')]_vars

C10_Witness ==
  /\ Len(toc) = 4
  /\ toc[1].title = toc[2].title
  /\ toc[1].depth = toc[2].depth
  /\ toc[3].depth = 1

(***************************************************************************)
(* Idle values of the variables a specification does not use               *)
(***************************************************************************)
ProcessIdle ==
  /\ n = 0 /\ index = 0 /\ numbering = <<0>> /\ toc = <<>> /\ pages = <<>>
  /\ pc = "idle" /\ cur = NoFile

ProcessUnchanged == UNCHANGED <<n, index, numbering, toc, pages, pc, cur>>

(***************************************************************************)
(* SpecParse: parse_frontmatter on every text of up to MaxLines lines      *)
(***************************************************************************)
SeqsUpTo(S, k) == UNION {[1..m -> S] : m \in 0..k}

ParseLines == {<<DELIM>>, <<" ", DELIM>>, <<"title", ": ", "a">>, <<>>, <<"x">>}

ParseInputs == {Join(ls, NL) : ls \in SeqsUpTo(ParseLines, MaxLines)}

InitParse ==
  /\ ProcessIdle
  /\ input \in ParseInputs
  /\ output = <<>>
  /\ called = "none"

Call_parse_frontmatter ==
  /\ called = "none"
  /\ called' = "parse_frontmatter"
  /\ output' = parse_frontmatter(input)
  /\ UNCHANGED input
  /\ ProcessUnchanged

NextParse == Call_parse_frontmatter

SpecParse == InitParse /\ [][NextParse]_vars

\* the text has an opening '---' first line and a later closing '---' line
HasBothDelimiters(t) ==
  LET lines == Split(t, NL) IN
  /\ Strip(lines[1]) = <<DELIM>>
  /\ \E i \in 2..Len(lines) : lines[i] = <<DELIM>>

\* C3: parse_frontmatter never raises; without both delimiters it returns no
\* frontmatter and the whole text as body, and with both it returns the lines
\* between them as frontmatter and everything after the closing one as body.
C3_ParseTotal ==
  called = "parse_frontmatter" =>
    /\ ~output.raised
    /\ IF HasBothDelimiters(input)
       THEN LET lines == Split(input, NL)
                e == ListIndex(lines, <<DELIM>>, 2)
            IN /\ output.has
               /\ output.frontmatter = Join(SubSeq(lines, 2, e - 1), NL)
               /\ output.content = Join(SubSeq(lines, e + 1, Len(lines)), NL)
       ELSE ~output.has /\ output.content = input
(***************************************************************************)
(* SpecCodec: preprocess_frontmatter, safe_load_frontmatter and            *)
(* restore_html_tags on a frontmatter whose title holds up to MaxTags      *)
(* atoms, tags among them                                                  *)
(***************************************************************************)
CodecValues == SeqsUpTo({"<b>", "x"}, MaxTags) \ {<<>>}

CodecInputs == {<<"title", KEYSEP>> \o v : v \in CodecValues}

InitCodec ==
  /\ ProcessIdle
  /\ input \in CodecInputs
  /\ output = <<>>
  /\ called = "none"

Call_load_frontmatter ==
  /\ called = "none"
  /\ called' = "load_frontmatter"
  /\ output' = load_frontmatter(input)
  /\ UNCHANGED input
  /\ ProcessUnchanged

NextCodec == Call_load_frontmatter

SpecCodec == InitCodec /\ [][NextCodec]_vars

\* C5: after placeholder substitution, a successful parse and the restore, every
\* string-valued field is the HTML-escaped form of the value the frontmatter gives
\* it: each placeholder is back to its tag and no placeholder text remains.
C5_RoundTrip ==
  called = "load_frontmatter" /\ output.ok =>
    LET original == safe_load_frontmatter(input) IN
    /\ original.ok
    /\ DOMAIN output.data = DOMAIN original.data
    /\ \A k \in DOMAIN output.data :
         output.data[k].str =>
           /\ output.data[k].v = html_escape(original.data[k].v)
           /\ \A i \in 1..Len(output.data[k].v) : output.data[k].v[i] # PLACEHOLDER
(***************************************************************************)
(* SpecCode: preprocess_code_blocks on one fenced block of up to           *)
(* MaxCodeLines lines, with and without the filename attribute             *)
(***************************************************************************)
CodeLines == {<<>>, <<"x">>, <<" ", "x">>}

\* every line of a block's content ends with its newline
RECURSIVE Unlines(_)
Unlines(ls) == IF ls = <<>> THEN <<>> ELSE ls[1] \o <<NL>> \o Unlines(Tail(ls))

CodeInputs ==
  [language : {<<>>, <<"js">>},
   attrs : {<<>>, <<" ", FILENAME_ATTR>>, <<" ", FILENAME_ATTR, " ", SWITCHER>>},
   code : {Unlines(ls) : ls \in SeqsUpTo(CodeLines, MaxCodeLines)}]

BlockText(b) == <<FENCE>> \o b.language \o b.attrs \o <<NL>> \o b.code \o <<FENCE>>

InitCode ==
  /\ ProcessIdle
  /\ input \in CodeInputs
  /\ output = <<>>
  /\ called = "none"

Call_preprocess_code_blocks ==
  /\ called = "none"
  /\ called' = "preprocess_code_blocks"
  /\ output' = preprocess_code_blocks(BlockText(input))
  /\ UNCHANGED input
  /\ ProcessUnchanged

NextCode == Call_preprocess_code_blocks

SpecCode == InitCode /\ [][NextCode]_vars

\* C8: a block with a filename attribute becomes a header line with the filename
\* (and the language in parentheses when given) and a fence re-tagged with the
\* language alone whose content is the original content, nothing added or removed;
\* a block without the attribute is left unchanged.
C8_CodeContentKept ==
  called = "preprocess_code_blocks" =>
    IF input.attrs = <<>>
    THEN output = BlockText(input)
    ELSE output =
           (IF input.language # <<>>
            THEN <<HEADER_OPEN, FILENAME, " (">> \o input.language \o <<")", HEADER_CLOSE>>
            ELSE <<HEADER_OPEN, FILENAME, HEADER_CLOSE>>)
           \o <<NL, FENCE>> \o input.language \o <<NL>> \o input.code \o <<FENCE>>
(***************************************************************************)
(* SpecSort: get_files_sorted on a root directory of up to MaxDirFiles     *)
(* files with one directory below it                                       *)
(***************************************************************************)
A_MD == <<"a", ".", "m", "d">>

Names ==
  {INDEX_MD, INDEX_MDX, A_MD, <<" ">> \o A_MD, <<"!">> \o A_MD, MARKER \o A_MD,
   MARKER \o INDEX_MD, <<"_">> \o A_MD, <<"A", ".", "m", "d">>, <<"0", ".", "m", "d">>}

IndexNames == {INDEX_MD, INDEX_MDX}

SortInputs ==
  [root : {<<"r">>},
   files : {S \in SUBSET Names : Cardinality(S) <= MaxDirFiles},
   sub : {<<"r", "/", "s">>},
   subfiles : SUBSET {INDEX_MD, A_MD}]

InitSort ==
  /\ ProcessIdle
  /\ input \in SortInputs
  /\ output = <<>>
  /\ called = "none"

Call_get_files_sorted ==
  /\ called = "none"
  /\ called' = "get_files_sorted"
  /\ output' \in get_files_sorted(input)
  /\ UNCHANGED input
  /\ ProcessUnchanged

NextSort == Call_get_files_sorted

SpecSort == InitSort /\ [][NextSort]_vars

\* the position of a path in the returned list
Pos(path) == CHOOSE i \in 1..Len(output) : output[i] = path

\* the sort key of file f of directory dir
KeyOf(dir, f) == path_join(dir, modified_basename(f))

\* index document f of directory dir, with the files of dir, precedes sibling g
Precedes(dir, f, g) ==
  /\ StrLess(KeyOf(dir, f), KeyOf(dir, g))
  /\ Pos(dir \o <<"/">> \o f) < Pos(dir \o <<"/">> \o g)

\* C2 as stated: the key of an index document is strictly below the key of
\* every other file of its directory, whatever its name, and the index document
\* is returned before all of them.
C2_IndexFirst ==
  called = "get_files_sorted" =>
    /\ \A f \in input.files \cap IndexNames : \A g \in input.files \ {f} :
         Precedes(input.root, f, g)
    /\ \A f \in input.subfiles \cap IndexNames : \A g \in input.subfiles \ {f} :
         Precedes(input.sub, f, g)

\* a sibling the marker is made for: not an index document itself, and its name
\* begins with a character that sorts after '!'
Ordinary(g) == g \notin IndexNames /\ Ord(g[1]) > Ord("!")

\* C2, amended: the key of an index document is strictly below the key of every
\* sibling that is not an index document itself and whose name begins with a
\* character sorting after '!', and the index document is returned before them.
C2_IndexFirstOrdinary ==
  called = "get_files_sorted" =>
    /\ \A f \in input.files \cap IndexNames :
         \A g \in input.files \ {f} : Ordinary(g) => Precedes(input.root, f, g)
    /\ \A f \in input.subfiles \cap IndexNames :
         \A g \in input.subfiles \ {f} : Ordinary(g) => Precedes(input.sub, f, g)

C2_Witness ==
  /\ called = "get_files_sorted"
  /\ input.files = {INDEX_MD, A_MD, <<"0", ".", "m", "d">>}
  /\ input.subfiles = {INDEX_MD, A_MD}
  /\ output[1] = <<"r", "/">> \o INDEX_MD

(***************************************************************************)
(* SpecVersion: find_latest_version and the title, on a content of up to   *)
(* MaxPieces pieces                                                        *)
(***************************************************************************)
V_1_2_0 == <<"v", "1", ".", "2", ".", "0">>
V_1_10_0 == <<"v", "1", ".", "1", "0", ".", "0">>
V_1_9_9 == <<"v", "1", ".", "9", ".", "9">>
V_1_010_0 == <<"v", "1", ".", "0", "1", "0", ".", "0">>

Pieces == {V_1_2_0, V_1_10_0, V_1_9_9, V_1_010_0, <<"x">>, <<"v", "1", ".", "2">>}

RECURSIVE Concat(_)
Concat(ps) == IF ps = <<>> THEN <<>> ELSE ps[1] \o Concat(Tail(ps))

VersionInputs == {Concat(ps) : ps \in SeqsUpTo(Pieces, MaxPieces)}

InitVersion ==
  /\ ProcessIdle
  /\ input \in VersionInputs
  /\ output = <<>>
  /\ called = "none"

Call_find_latest_version ==
  /\ called = "none"
  /\ called' = "find_latest_version"
  /\ IF find_latest_version(input) = {}
     THEN output' = titled(<<>>)
     ELSE \E v \in find_latest_version(input) : output' = titled(v)
  /\ UNCHANGED input
  /\ ProcessUnchanged

NextVersion == Call_find_latest_version

SpecVersion == InitVersion /\ [][NextVersion]_vars

Tokens == {findall_versions(input, 1)[i] : i \in 1..Len(findall_versions(input, 1))}

\* C9: with at least one token v<major>.<minor>.<patch> in the content the
\* result is a token no other token exceeds, the components compared as numbers
\* in order, and the title and file name carry it; with none, there is no
\* version and the fallback title and file name are used.
C9_LatestVersion ==
  called = "find_latest_version" =>
    IF Tokens = {}
    THEN /\ output.latest_version = <<>>
         /\ output.project_title = <<TITLE>>
         /\ output.output_pdf = <<PDF_NAME>>
    ELSE /\ output.latest_version \in Tokens
         /\ \A u \in Tokens : ~SeqLess(Release(output.latest_version), Release(u))
         /\ output.project_title = <<TITLE, " ", "v">> \o output.latest_version
         /\ output.output_pdf # <<PDF_NAME>>
         /\ (Tokens = {Tail(V_1_2_0), Tail(V_1_10_0), Tail(V_1_9_9)}
               => output.latest_version = Tail(V_1_10_0))

C9_Witness ==
  /\ called = "find_latest_version"
  /\ input = V_1_2_0 \o V_1_10_0 \o V_1_9_9
  /\ output.latest_version = Tail(V_1_10_0)
====
